---- MODULE Spec2Model ----
(***************************************************************************)
(* ComponentUID (pyomo/core/base/component_uid.py): the string codec, the  *)
(* generation of an identifier from a component, find_component,           *)
(* list_components and matches, over a model tree and its clone.          *)
(*                                                                         *)
(* A Python str is a sequence of one-character strings.  A Python index    *)
(* value is a record: an int, a str, a slice(None, stop, None) whose stop  *)
(* is a str, or None.                                                      *)
(***************************************************************************)
EXTENDS Integers, Sequences, FiniteSets, TLC

\* ------------------------------------------------------------ bounds
\* Largest integer written in the index of a label (labels use 1..MaxInt).
MaxInt == 3
\* Largest number of dot-separated segments in a label.
MaxSegs == 2

\* ------------------------------------------------------------ Python values
IntV(n) == [k |-> "int", n |-> n, s |-> <<>>]
StrV(s) == [k |-> "str", n |-> 0, s |-> s]
SliceV(s) == [k |-> "slice", n |-> 0, s |-> s]
NoneV == [k |-> "none", n |-> 0, s |-> <<>>]
\* slice(None) and Ellipsis
SliceAll == [k |-> "sliceall", n |-> 0, s |-> <<>>]
EllipsisV == [k |-> "ellipsis", n |-> 0, s |-> <<>>]

Digits == <<"0", "1", "2", "3", "4", "5", "6", "7", "8", "9">>

DigitVal(c) == (CHOOSE i \in 1..10 : Digits[i] = c) - 1

IsDigit(c) == \E i \in 1..10 : Digits[i] = c

\* str(n) of a non-negative int
RECURSIVE IntText(_)
IntText(n) == IF n < 10 THEN <<Digits[n + 1]>> ELSE IntText(n \div 10) \o <<Digits[(n % 10) + 1]>>

\* the value of a text of decimal digits
RECURSIVE DigitsValue(_)
DigitsValue(t) == IF t = <<>> THEN 0 ELSE 10 * DigitsValue(SubSeq(t, 1, Len(t) - 1)) + DigitVal(t[Len(t)])

\* whether int(t) succeeds on the str t (the texts of the model hold no sign,
\* blank or underscore): otherwise int raises ValueError
IntAccepts(t) == Len(t) > 0 /\ \A i \in 1..Len(t) : IsDigit(t[i])

\* str(x)
PyStr(v) ==
    CASE v.k = "int" -> IntText(v.n)
      [] v.k = "str" -> v.s
      [] v.k = "slice" -> <<"s", "l", "i", "c", "e", "(", "N", "o", "n", "e", ",", " ", "'">>
                            \o v.s \o <<"'", ",", " ", "N", "o", "n", "e", ")">>
      [] OTHER -> <<"N", "o", "n", "e">>

\* tList with str ahead of int
tListStrFirst == <<"str", "int", "slice">>

\* tList = [int, str, slice], tKeys = '#$*'
tList == <<"int", "str", "slice">>

tKeys == <<"#", "$", "*">>

InText(c, t) == \E i \in 1..Len(t) : t[i] = c

\* tDict[key] for a key character: the cast at the same position of tList
tDictCast(c) == tList[CHOOSE i \in 1..Len(tKeys) : tKeys[i] = c]

\* tDict.get(type(x), '?')
tDictCode(v) ==
    CASE v.k = "int" -> "#"
      [] v.k = "str" -> "$"
      [] v.k \in {"slice", "sliceall"} -> "*"
      [] OTHER -> "?"

\* _cast(x) for x a str or an int: [ok, v]; ok = FALSE is a ValueError
Cast(cast, v) ==
    CASE cast = "int" ->
           IF v.k = "int" THEN [ok |-> TRUE, v |-> v]
           ELSE IF v.k = "str" /\ IntAccepts(v.s) THEN [ok |-> TRUE, v |-> IntV(DigitsValue(v.s))]
           ELSE [ok |-> FALSE, v |-> v]
      [] cast = "str" -> [ok |-> TRUE, v |-> StrV(PyStr(v))]
      [] OTHER -> [ok |-> TRUE, v |-> SliceV(PyStr(v))]

\* ------------------------------------------------------------ str helpers
Reverse(s) == [i \in 1..Len(s) |-> s[Len(s) + 1 - i]]

\* index of the first d in t, 0 when there is none
FirstIdx(t, d) == IF InText(d, t) THEN CHOOSE i \in 1..Len(t) : t[i] = d /\ \A j \in 1..(i - 1) : t[j] # d ELSE 0

\* t.split(d)
RECURSIVE Split(_, _)
Split(t, d) ==
    LET i == FirstIdx(t, d)
    IN IF i = 0 THEN <<t>> ELSE <<SubSeq(t, 1, i - 1)>> \o Split(SubSeq(t, i + 1, Len(t)), d)

\* t.split(d, 1)
Split1(t, d) ==
    LET i == FirstIdx(t, d)
    IN IF i = 0 THEN <<t>> ELSE <<SubSeq(t, 1, i - 1), SubSeq(t, i + 1, Len(t))>>

\* d.join(parts)
RECURSIVE Join(_, _)
Join(parts, d) ==
    IF parts = <<>> THEN <<>>
    ELSE IF Len(parts) = 1 THEN parts[1]
    ELSE parts[1] \o <<d>> \o Join(Tail(parts), d)

\* ------------------------------------------------------------ segments
\* A segment (name, idx, types).  idx is [isStr, v]: the tuple of the values v,
\* or (isStr) the str '**' whose characters are v.  types is a str, or None.
NoneT == <<"None">>

TupleIdx(vals) == [isStr |-> FALSE, v |-> vals]

StarStar == [isStr |-> TRUE, v |-> <<StrV(<<"*">>), StrV(<<"*">>)>>]

Seg(name, idx, types) == [name |-> name, idx |-> idx, types |-> types]

\* ------------------------------------------------------------ parse_cuid
\* one value of an index: [err, t, v]
ParseVal(val) ==
    IF val = <<"*">> THEN [err |-> "none", t |-> "*", v |-> StrV(<<>>)]
    ELSE IF val = <<>> THEN [err |-> "IndexError", t |-> "", v |-> NoneV]
    ELSE IF InText(val[1], tKeys)
      THEN LET r == Cast(tDictCast(val[1]), StrV(Tail(val)))
           IN IF r.ok THEN [err |-> "none", t |-> val[1], v |-> r.v]
              ELSE [err |-> "ValueError", t |-> "", v |-> NoneV]
    ELSE IF val[1] \in {"\"", "'"} /\ val[Len(val)] = val[1]
      THEN [err |-> "none", t |-> "$", v |-> StrV(SubSeq(val, 2, Len(val) - 1))]
    ELSE [err |-> "none", t |-> ".", v |-> StrV(val)]

\* one dot-separated token: [err, seg]
ParseToken(c) ==
    IF c = <<>> THEN [err |-> "IndexError", seg |-> Seg(<<>>, TupleIdx(<<>>), <<>>)]
    ELSE
    LET c_info == IF c[Len(c)] = "]" THEN Split1(SubSeq(c, 1, Len(c) - 1), "[") ELSE Split1(c, ":")
    IN IF Len(c_info) = 1 THEN [err |-> "none", seg |-> Seg(c_info[1], TupleIdx(<<>>), <<>>)]
       ELSE
       LET toks == Split(c_info[2], ",")
           vals == [i \in 1..Len(toks) |-> ParseVal(toks[i])]
           bad == {i \in 1..Len(toks) : vals[i].err # "none"}
           idx == [i \in 1..Len(toks) |-> vals[i].v]
           _type == [i \in 1..Len(toks) |-> vals[i].t]
       IN IF bad # {}
            THEN [err |-> vals[CHOOSE i \in bad : \A j \in bad : i <= j].err,
                  seg |-> Seg(c_info[1], TupleIdx(<<>>), <<>>)]
          ELSE IF Len(idx) = 1 /\ idx[1] = StrV(<<"*", "*">>)
            THEN [err |-> "none", seg |-> Seg(c_info[1], StarStar, NoneT)]
          ELSE [err |-> "none", seg |-> Seg(c_info[1], TupleIdx(idx), _type)]

\* tuple(self.parse_cuid(label)): [err, cids], cids leaf first
parse_cuid(label) ==
    LET cList == Reverse(Split(label, "."))
        res == [i \in 1..Len(cList) |-> ParseToken(cList[i])]
        bad == {i \in 1..Len(cList) : res[i].err # "none"}
    IN IF bad # {}
         THEN [err |-> res[CHOOSE i \in bad : \A j \in bad : i <= j].err, cids |-> <<>>]
       ELSE [err |-> "none", cids |-> [i \in 1..Len(cList) |-> res[i].seg]]

\* ------------------------------------------------------------ __str__, __repr__
\* ','.join(str(x) for x in args): without the `or '*'`
StrArgsPlain(args) == Join([i \in 1..Len(args) |-> PyStr(args[i])], ",")

\* ','.join(str(x) or '*' for x in args)
StrArgs(args) == Join([i \in 1..Len(args) |-> IF PyStr(args[i]) = <<>> THEN <<"*">> ELSE PyStr(args[i])], ",")

\* ','.join((types[i] if types[i] not in '.' else '') + str(x) ...)
ReprArgs(args, types) ==
    Join([i \in 1..Len(args) |-> (IF types[i] = "." THEN <<>> ELSE <<types[i]>>) \o PyStr(args[i])], ",")

RECURSIVE StrFrom(_, _, _)
StrFrom(cids, i, a) ==
    IF i = 0 THEN a
    ELSE LET c == cids[i]
             a1 == IF a # <<>> THEN a \o <<".">> \o c.name ELSE c.name
         IN IF c.types = NoneT THEN StrFrom(cids, i - 1, a1 \o <<"[", "*", "*", "]">>)
            ELSE IF Len(c.idx.v) = 0 THEN StrFrom(cids, i - 1, a1)
            ELSE StrFrom(cids, i - 1, a1 \o <<"[">> \o StrArgs(c.idx.v) \o <<"]">>)

cuid_str(cids) == StrFrom(cids, Len(cids), <<>>)

RECURSIVE ReprFrom(_, _, _)
ReprFrom(cids, i, a) ==
    IF i = 0 THEN a
    ELSE LET c == cids[i]
             a1 == IF a # <<>> THEN a \o <<".">> \o c.name ELSE c.name
         IN IF c.types = NoneT THEN ReprFrom(cids, i - 1, a1 \o <<":", "*", "*">>)
            ELSE IF Len(c.idx.v) = 0 THEN ReprFrom(cids, i - 1, a1)
            ELSE ReprFrom(cids, i - 1, a1 \o <<":">> \o ReprArgs(c.idx.v, c.types))

cuid_repr(cids) == ReprFrom(cids, Len(cids), <<>>)

\* ------------------------------------------------------------ the model tree
\* The component tree the identifiers address: blocks holding named children,
\* some of them indexed.  kind: "block" (a scalar block; node 1 is the model),
\* "var" (a scalar leaf), "coll" (an indexed component itself, which has no
\* _component attribute), "bdata" / "vdata" (a member of an indexed block / of
\* an indexed leaf component).  pb is parent_block() (0: None), pc is
\* parent_component(), key the member's index.
N(name, kind, pb, pc, key) == [name |-> name, kind |-> kind, pb |-> pb, pc |-> pc, key |-> key]

NodeTab ==
    << N(<<"m">>, "block", 0, 1, <<>>),
       N(<<"x">>, "coll", 1, 2, <<>>),
       N(<<"x">>, "vdata", 1, 2, <<IntV(1), StrV(<<"a">>)>>),
       N(<<"x">>, "vdata", 1, 2, <<IntV(2), StrV(<<"b">>)>>),
       N(<<"p">>, "coll", 1, 5, <<>>),
       N(<<"p">>, "vdata", 1, 5, <<IntV(3)>>),
       N(<<"p">>, "vdata", 1, 5, <<StrV(<<"3">>)>>),
       N(<<"q">>, "coll", 1, 8, <<>>),
       N(<<"q">>, "vdata", 1, 8, <<StrV(<<"3">>)>>),
       N(<<"r">>, "coll", 1, 10, <<>>),
       N(<<"r">>, "vdata", 1, 10, <<IntV(3)>>),
       N(<<"b">>, "coll", 1, 12, <<>>),
       N(<<"b">>, "bdata", 1, 12, <<IntV(1)>>),
       N(<<"b">>, "bdata", 1, 12, <<IntV(2)>>),
       N(<<"y">>, "var", 13, 15, <<>>),
       N(<<"p">>, "coll", 14, 16, <<>>),
       N(<<"p">>, "vdata", 14, 16, <<IntV(1)>>),
       N(<<"s">>, "block", 1, 18, <<>>),
       N(<<"y">>, "var", 18, 19, <<>>),
       N(<<"z">>, "coll", 1, 20, <<>>),
       N(<<"z">>, "vdata", 1, 20, <<IntV(3), StrV(<<"3">>)>>),
       N(<<"z">>, "vdata", 1, 20, <<StrV(<<"3">>), IntV(3)>>) >>

NBase == Len(NodeTab)

\* Nodes 1..NBase are the model; NBase+1..2*NBase are its clone, node for node.
AllNodes == 1..(2 * NBase)

Base(n) == IF n > NBase THEN n - NBase ELSE n

Off(n) == IF n > NBase THEN NBase ELSE 0

Clone(n) == n + NBase

\* the components of the model
Nodes == 1..NBase

local_name(n) == NodeTab[Base(n)].name

Kind(n) == NodeTab[Base(n)].kind

\* component.parent_block(); 0 is None
parent_block(n) == IF NodeTab[Base(n)].pb = 0 THEN 0 ELSE NodeTab[Base(n)].pb + Off(n)

\* component.parent_component()
parent_component(n) == NodeTab[Base(n)].pc + Off(n)

\* component.model(): the block at the top of the component's tree
RECURSIVE model(_)
model(n) == IF parent_block(n) = 0 THEN n ELSE model(parent_block(n))

\* hasattr(component, '_component'): every component data object has it, an
\* indexed component itself has not
has_component(n) == Kind(n) # "coll"

\* the index a member is stored under: a tuple for two or more positions
IndexOf(n) == [tup |-> Len(NodeTab[Base(n)].key) > 1, vals |-> NodeTab[Base(n)].key]

IsMember(n) == Kind(n) \in {"bdata", "vdata"}

RECURSIVE SortedSeq(_)
SortedSeq(S) == IF S = {} THEN <<>> ELSE LET m == CHOOSE a \in S : \A b \in S : a <= b IN <<m>> \o SortedSeq(S \ {m})

\* iteritems(c): the (index, object) pairs of an indexed component in insertion
\* order; a scalar component holds itself under the index None
iteritems(c) ==
    IF Kind(c) = "coll"
      THEN LET ms == SortedSeq({n \in AllNodes : IsMember(n) /\ parent_component(n) = c})
           IN [i \in 1..Len(ms) |-> [idx |-> IndexOf(ms[i]), obj |-> ms[i]]]
    ELSE <<[idx |-> [tup |-> FALSE, vals |-> <<NoneV>>], obj |-> c]>>

\* getattr(obj, name): the child component of a block with that local name;
\* 0 stands for AttributeError (no such child, or obj is None or no block)
getattr(obj, name) ==
    LET cs == {n \in AllNodes : /\ obj # 0
                                /\ Kind(obj) \in {"block", "bdata"}
                                /\ ~IsMember(n)
                                /\ parent_block(n) = obj
                                /\ local_name(n) = name
                               }
    IN IF cs = {} THEN 0 ELSE CHOOSE n \in cs : TRUE

\* comp[key] for key a tuple of values: the member stored under that index (an
\* index of one position is stored bare); 0 stands for KeyError
getitem(comp, key) ==
    LET ms == {n \in AllNodes : /\ Kind(comp) = "coll"
                                /\ IsMember(n)
                                /\ parent_component(n) = comp
                               
                                /\ NodeTab[Base(n)].key = key}
    IN IF ms = {} THEN 0 ELSE CHOOSE n \in ms : TRUE

\* ------------------------------------------------------------ generation
\* tuple(self._generate_validated_index(idx)): [err, vals]
RECURSIVE ValidatedFrom(_, _, _, _, _)
ValidatedFrom(vals, i, encountered_fixed, encountered_ellipsis, acc) ==
    IF i > Len(vals) THEN [err |-> "none", vals |-> acc]
    ELSE IF vals[i] = SliceAll
      THEN ValidatedFrom(vals, i + 1, encountered_fixed, encountered_ellipsis, Append(acc, StrV(<<>>)))
    ELSE IF vals[i] = EllipsisV
      THEN IF encountered_ellipsis \/ encountered_fixed
             THEN [err |-> "NotImplementedError", vals |-> acc]
           ELSE ValidatedFrom(vals, i + 1, encountered_fixed, TRUE, Append(acc, StrV(<<"*", "*">>)))
    ELSE IF encountered_ellipsis THEN [err |-> "NotImplementedError", vals |-> acc]
    ELSE ValidatedFrom(vals, i + 1, TRUE, encountered_ellipsis, Append(acc, vals[i]))

_generate_validated_index(vals) == ValidatedFrom(vals, 1, FALSE, FALSE, <<>>)

\* self._partial_cuid_from_index(idx): [err, idx, types]
_partial_cuid_from_index(idx) ==
    IF idx.tup
      THEN LET g == _generate_validated_index(idx.vals)
           IN [err |-> g.err, idx |-> TupleIdx(g.vals),
               types |-> [i \in 1..Len(idx.vals) |-> tDictCode(idx.vals[i])]]
    ELSE IF idx.vals[1] = SliceAll
      THEN [err |-> "none", idx |-> TupleIdx(<<StrV(<<>>)>>), types |-> <<tDictCode(idx.vals[1])>>]
    ELSE IF idx.vals[1] = EllipsisV
      THEN [err |-> "none", idx |-> TupleIdx(<<StrV(<<"*", "*">>)>>), types |-> NoneT]
    ELSE [err |-> "none", idx |-> TupleIdx(<<idx.vals[1]>>), types |-> <<tDictCode(idx.vals[1])>>]

\* id(self): the identifier under construction is no component of any tree
SelfId == 2 * NBase + 1

EmptyBuffer == [n \in {} |-> 0]

\* for idx, obj in iteritems(c): cuid_buffer[id(obj)] = partial(idx)
ItemObjs(items) == {items[i].obj : i \in 1..Len(items)}

PopulateWith(objs, buf) ==
    [n \in (DOMAIN buf) \cup objs |-> IF n \in objs THEN _partial_cuid_from_index(IndexOf(n)) ELSE buf[n]]

Populate(c, buf) == PopulateWith(ItemObjs(iteritems(c)), buf)

\* the scan without its `if obj is component` test: the first item is taken
ScanFirst(items, component) == IF Len(items) = 0 THEN 0 ELSE 1

\* the obj-is-component scan of the items of c: the position of component, 0
\* if none
ScanFor(items, component) ==
    IF \A i \in 1..Len(items) : items[i].obj # component THEN 0
    ELSE CHOOSE i \in 1..Len(items) : items[i].obj = component /\ \A j \in 1..(i - 1) : items[j].obj # component

\* cuid_buffer after the `if id(self) not in cuid_buffer` fill for c
Filled(c, buf) == IF SelfId \notin DOMAIN buf THEN Populate(c, buf) ELSE buf

\* yield (c.local_name,) + partial: [err, segs, buf]
YieldPartial(c, part, buf) ==
    [err |-> part.err, segs |-> <<Seg(local_name(c), part.idx, part.types)>>, buf |-> buf]

\* yield (c.local_name,) + cuid_buffer[id(component)]
BufferBody(component, c, filled) ==
    IF component \notin DOMAIN filled THEN [err |-> "KeyError", segs |-> <<>>, buf |-> filled]
    ELSE YieldPartial(c, filled[component], filled)

\* for idx, obj in iteritems(c): if obj is component: yield ...; break
ScanBody(c, items, i, buf) ==
    IF i = 0 THEN [err |-> "none", segs |-> <<>>, buf |-> buf]
    ELSE YieldPartial(c, _partial_cuid_from_index(items[i].idx), buf)

\* one pass of the while loop body for component, c = parent_component():
\* [err, segs, buf], segs the segment yielded (none when the scan finds nothing)
LoopBody(component, c, useBuf, buf) ==
    IF c = component
      THEN [err |-> "none", segs |-> <<Seg(local_name(c), TupleIdx(<<>>), <<>>)>>, buf |-> buf]
    ELSE IF useBuf THEN BufferBody(component, c, Filled(c, buf))
    ELSE ScanBody(c, iteritems(c), ScanFor(iteritems(c), component), buf)

\* the while loop of _generate_cuid: [err, cids, buf]
RECURSIVE GenLoop(_, _, _, _, _, _)
GenStep(component, context, mdl, useBuf, y, acc) ==
    IF y.err # "none" THEN [err |-> y.err, cids |-> <<>>, buf |-> y.buf]
    ELSE GenLoop(parent_block(component), context, mdl, useBuf, y.buf, acc \o y.segs)

\* the while loop without its `raise ValueError`: the ascent stops at the model
GenLoopSilent(component, context, mdl, useBuf, buf, acc) ==
    IF component = context \/ component = mdl THEN [err |-> "none", cids |-> acc, buf |-> buf]
    ELSE GenStep(component, context, mdl, useBuf,
                 LoopBody(component, parent_component(component), useBuf, buf), acc)

GenLoop(component, context, mdl, useBuf, buf, acc) ==
    IF component = context THEN [err |-> "none", cids |-> acc, buf |-> buf]
    ELSE IF component = mdl THEN [err |-> "ValueError", cids |-> <<>>, buf |-> buf]
    ELSE GenStep(component, context, mdl, useBuf,
                 LoopBody(component, parent_component(component), useBuf, buf), acc)

\* tuple(self._generate_cuid(component, cuid_buffer, context)); context 0 is
\* None, useBuf says that a cuid_buffer was passed: [err, cids, buf]
_generate_cuid(component, useBuf, buf, context) ==
    LET mdl == model(component)
        ctx == IF context = 0 THEN mdl ELSE context
    IN IF ~has_component(component)
         THEN GenLoop(parent_block(component), ctx, mdl, useBuf, buf,
                      <<Seg(local_name(component), StarStar, NoneT)>>)
       ELSE GenLoop(component, ctx, mdl, useBuf, buf, <<>>)

\* ------------------------------------------------------------ _generate_cids_from_slice
\* The call stack of a slice is a sequence of (call, arg) pairs, the base of
\* the stack first; the set and del calls are those with bit 0b10 set.
SliceCalls == {"slice_info", "get_attr", "get_item", "call", "set_attr", "del_attr", "set_item", "del_item"}

IsSetOrDel(call) == call \in {"set_attr", "del_attr", "set_item", "del_item"}

\* slice_info = ({position: fixed value}, {position: slice}, ellipsis), the
\* positions counted from 0; ellipsis is <<>> for None, else <<position>>
SliceInfo(fixed, sliced, ellipsis) == [fixed |-> fixed, sliced |-> sliced, ellipsis |-> ellipsis]

NoInfo == SliceInfo(<<>>, <<>>, <<>>)

NoIndex == [tup |-> TRUE, vals |-> <<>>]

\* one entry of the call stack: arg is a name (get_attr, and the argument of
\* a call), an index (get_item), or (comp,) + slice_info (slice_info)
Call(call, name, idx, comp, info) == [call |-> call, name |-> name, idx |-> idx, comp |-> comp, info |-> info]

\* whether the module binds the global name IndexedComponent_slice: no import
\* and no assignment of the module does
SliceClassBound == FALSE

\* value_map = {}; value_map.update(fixed); value_map.update(sliced)
ValueMap(fixed, sliced) ==
    [i \in (DOMAIN fixed) \cup (DOMAIN sliced) |-> IF i \in DOMAIN sliced THEN sliced[i] ELSE fixed[i]]

\* the (idx, types) of the values value_map[0], ..., value_map[len - 1]
PartialOfValues(values) ==
    [err |-> "none",
     idx |-> TupleIdx([i \in 1..Len(values) |-> IF values[i] = SliceAll THEN StrV(<<>>) ELSE values[i]]),
     types |-> [i \in 1..Len(values) |-> tDictCode(values[i])]]

PartialOfMap(value_map, n) ==
    IF DOMAIN value_map # 0..(n - 1) THEN [err |-> "KeyError", idx |-> TupleIdx(<<>>), types |-> <<>>]
    ELSE PartialOfValues([i \in 1..n |-> value_map[i - 1]])

\* self._partial_cuid_from_slice_info(slice_info): [err, idx, types]
_partial_cuid_from_slice_info(slice_info) ==
    IF slice_info.ellipsis # <<>>
      THEN IF DOMAIN slice_info.fixed # {}
             THEN [err |-> "NotImplementedError", idx |-> TupleIdx(<<>>), types |-> <<>>]
           ELSE [err |-> "none", idx |-> TupleIdx(<<StrV(<<"*", "*">>)>>), types |-> NoneT]
    ELSE PartialOfMap(ValueMap(slice_info.fixed, slice_info.sliced),
                      Cardinality((DOMAIN slice_info.fixed) \cup (DOMAIN slice_info.sliced)))

\* `arg is not 'component'`: identity of str objects.  An equal str is the
\* same object only if the interpreter shares it (interned says it does).
IsNotComponent(arg, interned) == ~(arg = <<"c", "o", "m", "p", "o", "n", "e", "n", "t">> /\ interned)

\* the while loop of _generate_cids_from_slice with n entries left on the
\* stack: [err, cids].  name is <<>> for None, else <<the cached argument>>.
RECURSIVE SliceLoop(_, _, _, _, _, _, _, _)
\* yield seg; then the cids of the parent block of comp
SliceBase(call_stack, n, count, acc, context, interned, part, g) ==
    IF part.err # "none" THEN [err |-> part.err, cids |-> <<>>]
    ELSE IF g.err # "none" THEN [err |-> g.err, cids |-> <<>>]
    ELSE SliceLoop(call_stack, n - 1, NoIndex, <<>>, count, context, interned,
                   acc \o <<Seg(local_name(call_stack[n].comp), part.idx, part.types)>> \o g.cids)

\* yield (arg,) + self._partial_cuid_from_index(index); index = ()
SliceAttrIndexed(call_stack, n, name, count, acc, context, interned, arg, part) ==
    IF part.err # "none" THEN [err |-> part.err, cids |-> <<>>]
    ELSE SliceLoop(call_stack, n - 1, NoIndex, name, count, context, interned,
                   Append(acc, Seg(arg, part.idx, part.types)))

\* the rest of the get_attr branch once arg and name are settled
SliceAttrYield(call_stack, n, index, name, count, acc, context, interned, arg) ==
    IF count = 1
      THEN SliceLoop(call_stack, n - 1, NoIndex, name, count, context, interned,
                     Append(acc, Seg(arg, StarStar, NoneT)))
    ELSE SliceAttrIndexed(call_stack, n, name, count, acc, context, interned, arg,
                          _partial_cuid_from_index(index))

SliceAttr(call_stack, n, index, name, count, acc, context, interned) ==
    IF name # <<>>
      THEN IF IsNotComponent(call_stack[n].name, interned) THEN [err |-> "NotImplementedError", cids |-> <<>>]
           ELSE SliceAttrYield(call_stack, n, index, <<>>, count, acc, context, interned, name[1])
    ELSE SliceAttrYield(call_stack, n, index, name, count, acc, context, interned, call_stack[n].name)

\* the loop body for call, arg = call_stack.pop(); count is already counted
SliceStep(call_stack, n, index, name, count, acc, context, interned) ==
    IF IsSetOrDel(call_stack[n].call) THEN [err |-> "ValueError", cids |-> <<>>]
    ELSE IF ~SliceClassBound THEN [err |-> "NameError", cids |-> <<>>]
    ELSE IF call_stack[n].call = "slice_info"
      THEN SliceBase(call_stack, n, count, acc, context, interned,
                     _partial_cuid_from_slice_info(call_stack[n].info),
                     _generate_cuid(parent_block(call_stack[n].comp), FALSE, EmptyBuffer, context))
    ELSE IF call_stack[n].call = "get_item"
      THEN SliceLoop(call_stack, n - 1, call_stack[n].idx, name, count, context, interned, acc)
    ELSE IF call_stack[n].call = "call"
      THEN SliceLoop(call_stack, n - 1, index, <<call_stack[n].name>>, count, context, interned, acc)
    ELSE SliceAttr(call_stack, n, index, name, count, acc, context, interned)

SliceLoop(call_stack, n, index, name, count, context, interned, acc) ==
    IF n = 0 THEN [err |-> "none", cids |-> acc]
    ELSE SliceStep(call_stack, n, index, name, count + 1, acc, context, interned)

\* tuple(self._generate_cids_from_slice(_slice, context)) for the call stack
\* of _slice: [err, cids]
_generate_cids_from_slice(call_stack, context, interned) ==
    SliceLoop(call_stack, Len(call_stack), NoIndex, <<>>, 0, context, interned, <<>>)

\* ------------------------------------------------------------ find_component
\* types.find('.', from): the first position >= from holding '.', 0 if none
FindDot(types, from) ==
    LET ds == {i \in from..Len(types) : types[i] = "."}
    IN IF ds = {} THEN 0 ELSE CHOOSE i \in ds : \A j \in ds : i <= j

\* types taken for non-empty without the strip('*')
StripStarSkipped(types) == Len(types) > 0

\* types.strip('*') is non-empty
StripStarTruthy(types) == \E i \in 1..Len(types) : types[i] # "*"

\* _checkIntArgs(_idx, _t, _i) on the component comp = getattr(obj, name): the
\* member found, 0 for None.  _i = 0 is Python's -1.
RECURSIVE _checkIntArgs(_, _, _, _)
RECURSIVE CastsFrom(_, _, _, _, _)
TryCast(comp, _idx, _t, _i, k, ans) ==
    IF ans # 0 THEN ans ELSE CastsFrom(comp, _idx, _t, _i, k + 1)

CastsFrom(comp, _idx, _t, _i, k) ==
    IF k > Len(tList) THEN 0
    ELSE IF ~Cast(tList[k], _idx[_i]).ok THEN CastsFrom(comp, _idx, _t, _i, k + 1)
    ELSE TryCast(comp, _idx, _t, _i, k,
                 _checkIntArgs(comp, [_idx EXCEPT ![_i] = Cast(tList[k], _idx[_i]).v], _t, FindDot(_t, _i + 1)))

_checkIntArgs(comp, _idx, _t, _i) ==
    IF _i = 0 THEN getitem(comp, _idx)
    ELSE CastsFrom(comp, _idx, _t, _i, 1)

\* the for loop of find_component over reversed(self._cids), from segment i
\* with the current obj; 0 is None
RECURSIVE FindFrom(_, _, _)
\* the KeyError handler of comp[idx]
OnKeyError(cids, i, comp) ==
    IF ~InText(".", cids[i].types) THEN 0
    ELSE FindFrom(cids, i - 1,
                  _checkIntArgs(comp, cids[i].idx.v, cids[i].types, FindDot(cids[i].types, 1)))

\* obj = getattr(obj, name)[idx], comp = getattr(obj, name), item = comp[idx]
Indexed(cids, i, comp, item) ==
    IF comp = 0 THEN 0
    ELSE IF item # 0 THEN FindFrom(cids, i - 1, item)
    ELSE OnKeyError(cids, i, comp)

\* obj = getattr(obj, name)
Plain(cids, i, comp) == IF comp = 0 THEN 0 ELSE FindFrom(cids, i - 1, comp)

GetItemOf(comp, key) == IF comp = 0 THEN 0 ELSE getitem(comp, key)

FindSeg(cids, i, comp) ==
    IF Len(cids[i].idx.v) # 0 /\ cids[i].idx # StarStar
      THEN IF cids[i].types = NoneT THEN 0
           ELSE IF StripStarTruthy(cids[i].types)
             THEN Indexed(cids, i, comp, GetItemOf(comp, cids[i].idx.v))
           ELSE Plain(cids, i, comp)
    ELSE Plain(cids, i, comp)

FindFrom(cids, i, obj) ==
    IF i = 0 THEN obj ELSE FindSeg(cids, i, getattr(obj, cids[i].name))

\* self.find_component(block): the component, 0 for None
find_component(cids, block) == FindFrom(cids, Len(cids), block)

\* ------------------------------------------------------------ list_components
\* some _cast of tList gives _cast(a) == b
CastEquals(a, b) == \E k \in 1..Len(tList) : Cast(tList[k], a).ok /\ Cast(tList[k], a).v = b

\* the per-position test of _list_components and matches: pattern index idx
\* with types against the index _idx of a component
PositionsMatch(idx, types, _idx) ==
    \A j \in 1..Len(idx) :
        \/ idx[j] = _idx[j]
        \/ types[j] = "*"
        \/ types[j] = "." /\ CastEquals(idx[j], _idx[j])

\* the comparison of the pattern with _idx, _types = partial(target_idx)
KeepsPartial(idx, types, p) == Len(idx.v) = Len(p.idx.v) /\ PositionsMatch(idx.v, types, p.idx.v)

\* whether the pattern (idx, types) keeps the pair (target_idx, target_obj)
Keeps(idx, types, target_idx) ==
    \/ idx = StarStar
    \/ target_idx.tup /\ idx = TupleIdx(target_idx.vals)
    \/ KeepsPartial(idx, types, _partial_cuid_from_index(target_idx))

\* list(self._list_components(_obj, cids[:n])): [err, objs]; err is the
\* TypeError of `'*' not in types` on types None, objs what was yielded before
RECURSIVE _list_components(_, _, _)
RECURSIVE ListOver(_, _, _, _, _)
ListAppend(items, k, cids, n, acc, r) ==
    IF r.err # "none" THEN [err |-> r.err, objs |-> acc \o r.objs]
    ELSE ListOver(items, k + 1, cids, n, acc \o r.objs)

ListOver(items, k, cids, n, acc) ==
    IF k > Len(items) THEN [err |-> "none", objs |-> acc]
    ELSE IF ~Keeps(cids[n].idx, cids[n].types, items[k].idx)
      THEN ListOver(items, k + 1, cids, n, acc)
    ELSE ListAppend(items, k, cids, n, acc, _list_components(items[k].obj, cids, n - 1))

\* obj = obj[idx] without the `except KeyError: return`
ListItemUncaught(item, cids, n) ==
    IF item = 0 THEN [err |-> "KeyError", objs |-> <<>>] ELSE _list_components(item, cids, n - 1)

\* obj = obj[idx]; item is obj[idx], 0 for KeyError
ListItem(item, cids, n) ==
    IF item = 0 THEN [err |-> "none", objs |-> <<>>] ELSE _list_components(item, cids, n - 1)

ListSeg(obj, cids, n) ==
    IF obj = 0 THEN [err |-> "none", objs |-> <<>>]
    ELSE IF Len(cids[n].idx.v) = 0 THEN _list_components(obj, cids, n - 1)
    ELSE IF cids[n].idx # StarStar /\ cids[n].types = NoneT THEN [err |-> "TypeError", objs |-> <<>>]
    ELSE IF cids[n].idx # StarStar /\ ~InText("*", cids[n].types) /\ ~InText(".", cids[n].types)
      THEN ListItem(getitem(obj, cids[n].idx.v), cids, n)
    ELSE ListOver(iteritems(obj), 1, cids, n, <<>>)

_list_components(_obj, cids, n) ==
    IF n = 0 THEN [err |-> "none", objs |-> <<_obj>>]
    ELSE ListSeg(getattr(_obj, cids[n].name), cids, n)

\* list(self.list_components(block))
list_components(cids, block) == _list_components(block, cids, Len(cids))

\* ------------------------------------------------------------ matches
\* the for loop of matches over the generated segments gen, from position i:
\* "True", "False", or the exception raised
RECURSIVE MatchFrom(_, _, _)
MatchFrom(cids, gen, i) ==
    IF i > Len(gen) THEN (IF Len(gen) = Len(cids) THEN "True" ELSE "False")
    ELSE IF i = Len(cids) + 1 THEN "False"
    ELSE
    LET idx == gen[i].idx
        _idx == cids[i].idx
        _types == cids[i].types
    IN IF cids[i].name # gen[i].name THEN "False"
       ELSE IF _idx = StarStar \/ idx = _idx THEN MatchFrom(cids, gen, i + 1)
       ELSE IF Len(idx.v) # Len(_idx.v) THEN "False"
       ELSE IF _types = NoneT
         THEN (IF \A j \in 1..Len(idx.v) : idx.v[j] = _idx.v[j] THEN MatchFrom(cids, gen, i + 1) ELSE "TypeError")
       ELSE IF PositionsMatch(_idx.v, _types, idx.v) THEN MatchFrom(cids, gen, i + 1)
       ELSE "False"

\* the loop of matches over g = tuple(self._generate_cuid(component))
MatchGenerated(cids, g) ==
    IF g.err # "none" THEN g.err
    ELSE IF g.cids = <<>> THEN "UnboundLocalError"
    ELSE MatchFrom(cids, g.cids, 1)

\* self.matches(component)
matches(cids, component) ==
    MatchGenerated(cids, _generate_cuid(component, FALSE, EmptyBuffer, 0))

\* ------------------------------------------------------------ inputs
\* The labels handed to ComponentUID(label): one to MaxSegs segments, bracket
\* and colon forms, untyped, typed and quoted values, '*', '**' and '...'.
IntToks == {IntText(n) : n \in 1..MaxInt}

Tok1 ==
    IntToks \cup {<<"#">> \o t : t \in IntToks} \cup {<<"$">> \o t : t \in IntToks}
      \cup {<<"'">> \o IntText(MaxInt) \o <<"'">>, <<"*">>, <<"*", "*">>, <<"a">>, <<"$", "a">>}

TokL == {<<"1">>, <<"2">>, <<"#", "1">>, <<"*">>, <<"*", "*">>, <<".", ".", ".">>}

TokR == {<<"a">>, <<"$", "a">>, <<"*">>, <<"*", "*">>, <<".", ".", ".">>}

Forms(name, t) == {name \o <<"[">> \o t \o <<"]">>, name \o <<":">> \o t}

LeafSegs ==
    {<<"x">>, <<"p">>, <<"b">>, <<"s">>, <<"y">>, <<"m">>}
      \cup UNION {Forms(<<"p">>, t) \cup Forms(<<"q">>, t) \cup Forms(<<"r">>, t) \cup Forms(<<"b">>, t) : t \in Tok1}
      \cup UNION {Forms(<<"x">>, t) : t \in {<<"*">>, <<"*", "*">>, <<".", ".", ".">>}}
      \cup UNION {Forms(<<"x">>, l \o <<",">> \o r) : l \in TokL, r \in TokR}
      \cup UNION {Forms(<<"z">>, l \o <<",">> \o r) : l \in {<<"3">>, <<"$", "3">>}, r \in {<<"3">>, <<"#", "3">>}}

OuterSegs ==
    {<<"b">>, <<"s">>, <<"b", "[", "1", "]">>, <<"b", "[", "2", "]">>, <<"b", ":", "#", "1">>,
     <<"b", "[", "*", "]">>, <<"b", "[", "*", "*", "]">>, <<"s", "[", "*", "]">>}

InnerSegs ==
    {<<"y">>, <<"p">>, <<"y", "[", "*", "]">>, <<"y", "[", "1", "]">>, <<"p", "[", "1", "]">>,
     <<"p", ":", "#", "1">>, <<"p", "[", "*", "]">>, <<"p", "[", "*", "*", "]">>, <<"p", ":", "*", "*">>}

RECURSIVE Prefixes(_)
Prefixes(k) == IF k = 1 THEN OuterSegs ELSE {o \o <<".">> \o q : o \in OuterSegs, q \in Prefixes(k - 1)}

Labels == LeafSegs \cup UNION {{q \o <<".">> \o i : q \in Prefixes(k - 1), i \in InnerSegs} : k \in 2..MaxSegs}

\* ------------------------------------------------------------ state
\* cuid         the ComponentUID last constructed: [err, cids] (err: the
\*              exception __init__ raised, "none" when it returned)
\* origin       what it was constructed from
\* prev         the identifier whose text it was parsed from, when it was
\* cuid_buffer  the caller's cache as the last generation call left it
\* out          the result of the last call on the identifier
VARIABLES cuid, origin, prev, cuid_buffer, out

vars == <<cuid, origin, prev, cuid_buffer, out>>

NoCuid == [err |-> "unset", cids |-> <<>>]

NoOut == [op |-> "none", arg |-> 0, obj |-> 0, objs |-> <<>>, text |-> <<>>, res |-> "", err |-> "none"]

Origin(kind, label, component, context, useBuf) ==
    [kind |-> kind, label |-> label, component |-> component, context |-> context, useBuf |-> useBuf,
     log |-> <<>>]

Init ==
    /\ cuid = NoCuid
    /\ origin = Origin("none", <<>>, 0, 0, FALSE)
    /\ prev = NoCuid
    /\ cuid_buffer = EmptyBuffer
    /\ out = NoOut

\* ComponentUID(label, context=context): __init__ on a string
InitString(label, context) ==
    IF context # 0 THEN [err |-> "ValueError", cids |-> <<>>]
    ELSE parse_cuid(label)

\* ComponentUID(component, cuid_buffer, context): __init__ on a component
InitComponent(component, useBuf, buf, context) == _generate_cuid(component, useBuf, buf, context)

FromString(label, context) ==
    /\ origin.kind = "none"
    /\ cuid' = InitString(label, context)
    /\ origin' = Origin("label", label, 0, context, FALSE)
    /\ prev' = NoCuid
    /\ out' = NoOut
    /\ UNCHANGED cuid_buffer

\* ComponentUID(text) on the text that str() or repr() of the identifier gave
FromText ==
    /\ out.op \in {"str", "repr"}
    /\ cuid' = InitString(out.text, 0)
    /\ origin' = [origin EXCEPT !.kind = out.op, !.label = out.text]
    /\ prev' = cuid
    /\ out' = NoOut
    /\ UNCHANGED cuid_buffer

\* The caches a caller passes: none, an empty one, or the one an earlier call
\* ComponentUID(w, cuid_buffer=cache) on a component of the model filled.
PrimedBy(w) == _generate_cuid(w, TRUE, EmptyBuffer, 0).buf

Caches == {EmptyBuffer} \cup {PrimedBy(w) : w \in {3, 6, 13, 17}}

FromComponent(component, useBuf, cache, context) ==
    /\ origin.kind = "none"
    /\ cuid' = [err |-> InitComponent(component, useBuf, cache, context).err,
                cids |-> InitComponent(component, useBuf, cache, context).cids]
    /\ origin' = Origin("component", <<>>, component, context, useBuf)
    /\ prev' = NoCuid
    /\ cuid_buffer' = InitComponent(component, useBuf, cache, context).buf
    /\ out' = NoOut

\* The call stacks of the slices handed in: a slice_info entry at the base
\* (b[:], x[1,:], x[...], x[1,...]), then up to MaxSegs entries.
Bases ==
    {Call("slice_info", <<>>, NoIndex, 12, SliceInfo(<<>>, [i \in {0} |-> SliceAll], <<>>)),
     Call("slice_info", <<>>, NoIndex, 2, SliceInfo([i \in {0} |-> IntV(1)], [i \in {1} |-> SliceAll], <<>>)),
     Call("slice_info", <<>>, NoIndex, 2, SliceInfo(<<>>, <<>>, <<0>>)),
     Call("slice_info", <<>>, NoIndex, 2, SliceInfo([i \in {0} |-> IntV(1)], <<>>, <<1>>))}

Indices ==
    {[tup |-> FALSE, vals |-> <<IntV(1)>>], [tup |-> FALSE, vals |-> <<EllipsisV>>],
     [tup |-> TRUE, vals |-> <<IntV(1), SliceAll>>]}

Entries ==
    {Call("get_attr", nm, NoIndex, 0, NoInfo) : nm \in {<<"y">>, <<"c", "o", "m", "p", "o", "n", "e", "n", "t">>}}
      \cup {Call("get_item", <<>>, idx, 0, NoInfo) : idx \in Indices}
      \cup {Call("call", <<"p">>, NoIndex, 0, NoInfo)}
      \cup {Call(c, <<"y">>, NoIndex, 0, NoInfo) : c \in {"set_attr", "del_attr"}}
      \cup {Call(c, <<>>, [tup |-> FALSE, vals |-> <<IntV(1)>>], 0, NoInfo) : c \in {"set_item", "del_item"}}

RECURSIVE StacksOf(_)
StacksOf(k) ==
    IF k = 0 THEN {<<b>> : b \in Bases}
    ELSE StacksOf(k - 1) \cup {Append(st, e) : st \in StacksOf(k - 1), e \in Entries}

FromSlice(call_stack, context, interned) ==
    /\ origin.kind = "none"
    /\ cuid' = _generate_cids_from_slice(call_stack, context, interned)
    /\ origin' = [Origin("slice", <<>>, 0, context, FALSE) EXCEPT !.log = call_stack]
    /\ prev' = NoCuid
    /\ out' = NoOut
    /\ UNCHANGED cuid_buffer

Str ==
    /\ cuid.err = "none"
    /\ prev = NoCuid
    /\ out = NoOut
    /\ out' = [NoOut EXCEPT !.op = "str", !.text = cuid_str(cuid.cids)]
    /\ UNCHANGED <<cuid, origin, prev, cuid_buffer>>

Repr ==
    /\ cuid.err = "none"
    /\ prev = NoCuid
    /\ out = NoOut
    /\ out' = [NoOut EXCEPT !.op = "repr", !.text = cuid_repr(cuid.cids)]
    /\ UNCHANGED <<cuid, origin, prev, cuid_buffer>>

FindComponent(block) ==
    /\ cuid.err = "none"
    /\ out = NoOut
    /\ out' = [NoOut EXCEPT !.op = "find", !.arg = block, !.obj = find_component(cuid.cids, block)]
    /\ UNCHANGED <<cuid, origin, prev, cuid_buffer>>

ListComponents(block) ==
    /\ cuid.err = "none"
    /\ out = NoOut
    /\ LET r == list_components(cuid.cids, block)
       IN out' = [NoOut EXCEPT !.op = "list", !.arg = block, !.objs = r.objs, !.err = r.err]
    /\ UNCHANGED <<cuid, origin, prev, cuid_buffer>>

Matches(component) ==
    /\ cuid.err = "none"
    /\ out = NoOut
    /\ LET r == matches(cuid.cids, component)
       IN out' = [NoOut EXCEPT !.op = "matches", !.arg = component,
                               !.res = IF r \in {"True", "False"} THEN r ELSE "",
                               !.err = IF r \in {"True", "False"} THEN "none" ELSE r]
    /\ UNCHANGED <<cuid, origin, prev, cuid_buffer>>

\* the context of the identifier: the model unless one was given
ContextOf(o) == IF o.kind = "component" /\ o.context # 0 THEN o.context ELSE 1

Next ==
    \/ \E label \in Labels, context \in {0, 1} : FromString(label, context)
    \/ FromText
    \/ \E component \in Nodes, context \in {0, Clone(1)} \cup Nodes :
          \/ FromComponent(component, FALSE, EmptyBuffer, context)
          \/ \E cache \in Caches : FromComponent(component, TRUE, cache, context)
    \/ \E call_stack \in StacksOf(MaxSegs), context \in {0, 18}, interned \in BOOLEAN :
          FromSlice(call_stack, context, interned)
    \/ Str
    \/ Repr
    \/ \E block \in {1, Clone(1), ContextOf(origin), Clone(ContextOf(origin))} : FindComponent(block)
    \/ \E block \in {1} : ListComponents(block)
    \/ \E component \in Nodes : Matches(component)

Spec == Init /\ [][Next]_vars

\* ------------------------------------------------------------ tree relations
\* the node above n: the indexed component of a member, the block of a
\* component; 0 above the model
Up(n) == IF parent_component(n) # n THEN parent_component(n) ELSE parent_block(n)

\* n and the nodes above it
RECURSIVE Ancestors(_)
Ancestors(n) == IF n = 0 THEN {} ELSE {n} \cup Ancestors(Up(n))

\* the identifier was generated from a component with a context that is the
\* component or one of the nodes above it
GeneratedUnderAncestor ==
    /\ origin.kind = "component"
    /\ ContextOf(origin) \in Ancestors(origin.component)

\* find_component from the context gave the component, and from the context's
\* copy the component's copy
ResolvesBack ==
    /\ cuid.err = "none"
    /\ out.op = "find" /\ out.arg = ContextOf(origin) => out.obj = origin.component
    /\ out.op = "find" /\ out.arg = Clone(ContextOf(origin)) => out.obj = Clone(origin.component)

\* ------------------------------------------------------------ C1
\* C1 as stated: for every component x and every context c that is x or a
\* node above x, the identifier generated from x with context c (with or
\* without a cache) resolves from c to x, and from the copy of c to the copy
\* of x.
C1_AnyAncestorContext == GeneratedUnderAncestor => ResolvesBack

\* C1 amended: the same for every context c that is x or a node above x and
\* is not an indexed component itself.
C1_GenerateResolve ==
    GeneratedUnderAncestor /\ Kind(ContextOf(origin)) # "coll" => ResolvesBack

C1_Witness ==
    /\ origin.kind = "component" /\ origin.component = 17 /\ origin.context = 14
    /\ origin.useBuf /\ 3 \in DOMAIN cuid_buffer
    /\ out.op = "find" /\ out.arg = Clone(14) /\ out.obj = Clone(17)

\* ------------------------------------------------------------ C9
\* C9: generating from a component x with a context c that is neither x nor
\* a node above x raises ValueError and constructs no identifier; with the
\* default context generation never raises.
C9_ContextMustBeAncestor ==
    origin.kind = "component" =>
        /\ origin.context # 0 /\ origin.context \notin Ancestors(origin.component)
              => cuid.err = "ValueError" /\ cuid.cids = <<>>
        /\ origin.context = 0 => cuid.err = "none"

C9_Witness ==
    /\ origin.kind = "component" /\ origin.component = 15 /\ origin.context = 18
    /\ cuid.err = "ValueError"

\* ------------------------------------------------------------ C2
\* the objects a sequence holds
Range(seq) == {seq[k] : k \in 1..Len(seq)}

\* C2 as stated: for every identifier i and every component x of the tree
\* with root R, matches(i, x) is true if and only if x is one of the objects
\* list_components(i, R) yields.
C2_MatchesIffEnumerated ==
    out.op = "matches" =>
        /\ out.err = "none"
        /\ (out.res = "True") <=> (out.arg \in Range(list_components(cuid.cids, 1).objs))

\* ------------------------------------------------------------ C3
\* C3 as stated: for every identifier generated from a component, parsing its
\* repr gives an identifier with the same segments, type codes included.
C3_VerboseRoundTrip ==
    origin.kind = "repr" /\ origin.component # 0 => cuid.err = "none" /\ cuid.cids = prev.cids

\* ------------------------------------------------------------ C4
\* the indexed components directly under the model, and their members
RootCollections == {c \in Nodes : Kind(c) = "coll" /\ parent_block(c) = 1}

MembersOf(c) == {n \in AllNodes : IsMember(n) /\ parent_component(n) = c}

\* C4 as stated: for every indexed component x directly under the model, the
\* texts x[**] and x:** parse to the one segment (x, '**', None), and
\* list_components on the model yields every member of x exactly once.
C4_FullWildcardText ==
    \A c \in RootCollections :
        origin.kind = "label" /\ origin.context = 0 /\ origin.label \in Forms(local_name(c), <<"*", "*">>) =>
            /\ cuid.err = "none"
            /\ cuid.cids = <<Seg(local_name(c), StarStar, NoneT)>>
            /\ out.op = "list" =>
                  out.err = "none" /\ Len(out.objs) = Cardinality(MembersOf(c)) /\ Range(out.objs) = MembersOf(c)

\* ------------------------------------------------------------ C5
\* the members of c the one-position text "3" can stand for; 0 if absent
IntMember(c) == getitem(c, <<IntV(3)>>)

StrMember(c) == getitem(c, <<StrV(<<"3">>)>>)

\* find_component on the model was called on the identifier of x[3] or x:3
FoundText3(c) ==
    /\ origin.kind = "label" /\ origin.label \in Forms(local_name(c), <<"3">>)
    /\ out.op = "find" /\ out.arg = 1

\* C5 as stated: for the untyped text "3", find_component returns the member
\* with the integer key 3 when there is one (also when there is a member with
\* the string key "3"), and the member with the string key only when there
\* is no integer key.
C5_IntegerFirst ==
    \A c \in RootCollections :
        FoundText3(c) => out.obj = IF IntMember(c) # 0 THEN IntMember(c) ELSE StrMember(c)

\* the values an index position can be looked up with: the value itself for a
\* typed position, and for an untyped one its text cast to int (when int
\* accepts it), str and slice, in that order
CastsOf(v, t) ==
    IF t # "." THEN <<v>>
    ELSE (IF IntAccepts(v.s) THEN <<IntV(DigitsValue(v.s))>> ELSE <<>>) \o <<StrV(v.s), SliceV(v.s)>>

\* every head followed by every tail, the heads outermost
Product(heads, tails) ==
    [k \in 1..(Len(heads) * Len(tails)) |->
        <<heads[((k - 1) \div Len(tails)) + 1]>> \o tails[((k - 1) % Len(tails)) + 1]]

\* the keys in the order a depth-first search over the positions, left to
\* right, reaches them
RECURSIVE KeysInOrder(_, _)
KeysInOrder(vals, types) ==
    IF vals = <<>> THEN << <<>> >>
    ELSE Product(CastsOf(Head(vals), Head(types)), KeysInOrder(Tail(vals), Tail(types)))

\* the member under the first of the keys that c holds; 0 if it holds none
FirstHit(c, keys) ==
    LET hits == {k \in 1..Len(keys) : getitem(c, keys[k]) # 0}
    IN IF hits = {} THEN 0 ELSE getitem(c, keys[CHOOSE k \in hits : \A h \in hits : k <= h])

\* find_component on the model was called on a one-segment identifier over c
\* with an untyped position
FoundUntyped(c) ==
    /\ origin.kind = "label" /\ cuid.err = "none" /\ Len(cuid.cids) = 1
    /\ cuid.cids[1].name = local_name(c)
    /\ cuid.cids[1].types # NoneT /\ InText(".", cuid.cids[1].types)
    /\ out.op = "find" /\ out.arg = 1

\* C5 amended: for the untyped text "3", find_component returns the member
\* with the string key "3" when there is one (the lookup by the literal text
\* comes first) and the member with the integer key 3 only when there is no
\* string key; and when the lookup by the literal texts fails, the untyped
\* positions are cast left to right in the order int, str, slice and the
\* first key of that depth-first search that the component holds is returned.
C5_LiteralFirst ==
    \A c \in RootCollections :
        /\ FoundText3(c) => out.obj = IF StrMember(c) # 0 THEN StrMember(c) ELSE IntMember(c)
        /\ FoundUntyped(c) =>
              out.obj = IF getitem(c, cuid.cids[1].idx.v) # 0 THEN getitem(c, cuid.cids[1].idx.v)
                        ELSE FirstHit(c, KeysInOrder(cuid.cids[1].idx.v, cuid.cids[1].types))

C5_Witness ==
    /\ origin.kind = "label" /\ origin.label = <<"p", "[", "3", "]">>
    /\ out.op = "find" /\ out.arg = 1 /\ out.obj = 7

\* ------------------------------------------------------------ C6
\* no segment has an untyped position
TypedSubset(cids) ==
    \A i \in 1..Len(cids) : cids[i].types = NoneT \/ ~InText(".", cids[i].types)

\* C6 as stated: for every identifier i without untyped positions and every
\* root, the identifier parsed from str(i) resolves to the same object as i.
C6_CompactRoundTrip ==
    origin.kind = "str" /\ TypedSubset(prev.cids) =>
        /\ cuid.err = "none"
        /\ out.op = "find" => out.obj = find_component(prev.cids, out.arg)

\* a text that str() and parse_cuid carry over unchanged as one value
CleanText(t) ==
    /\ t # <<>>
    /\ t[1] \notin {"#", "$", "*", "'", "\""}
    /\ \A k \in 1..Len(t) : t[k] \notin {".", ","}

\* every position is an int typed '#', a clean str typed '$', or the
\* placeholder '' typed '*'
PlainValues(cids) ==
    \A i \in 1..Len(cids) :
        \/ cids[i].types = NoneT
        \/ \A j \in 1..Len(cids[i].types) :
              \/ cids[i].types[j] = "#" /\ cids[i].idx.v[j].k = "int"
              \/ cids[i].types[j] = "$" /\ cids[i].idx.v[j].k = "str" /\ CleanText(cids[i].idx.v[j].s)
              \/ cids[i].types[j] = "*" /\ cids[i].idx.v[j] = StrV(<<>>)

\* key differs from the index vals, and only at positions where one holds an
\* int and the other the str that int() reads as it or str() writes it as
Confusable(vals, key) ==
    /\ Len(vals) = Len(key)
    /\ vals # key
    /\ \A j \in 1..Len(vals) :
          \/ vals[j] = key[j]
          \/ vals[j].k = "int" /\ key[j] = StrV(IntText(vals[j].n))
          \/ vals[j].k = "str" /\ IntAccepts(vals[j].s) /\ key[j] = IntV(DigitsValue(vals[j].s))

\* no indexed component with the name of a segment holds a key confusable
\* with the index of that segment
NoConfusableKeys(cids) ==
    \A i \in 1..Len(cids) : \A n \in Nodes :
        IsMember(n) /\ local_name(n) = cids[i].name /\ cids[i].types # NoneT
            => ~Confusable(cids[i].idx.v, IndexOf(n).vals)

\* C6 amended: the same for every identifier i of at least one segment
\* without untyped positions whose index values are ints, non-empty strs free of '.', ',' and of a
\* leading '#', '$', '*' or quote, or '*' placeholders, on every tree in
\* which no indexed component named by a segment of i holds a key that
\* differs from that segment's index only by an int standing for its text or
\* a text standing for its int.
C6_CompactTyped ==
    /\ origin.kind = "str" /\ prev.cids # <<>>
    /\ TypedSubset(prev.cids) /\ PlainValues(prev.cids) /\ NoConfusableKeys(prev.cids)
    =>
        /\ cuid.err = "none"
        /\ out.op = "find" => out.obj = find_component(prev.cids, out.arg)

C6_Witness ==
    /\ origin.kind = "str" /\ origin.component = 17 /\ origin.context = 0
    /\ cuid.cids # prev.cids
    /\ out.op = "find" /\ out.arg = 1 /\ out.obj = 17

\* ------------------------------------------------------------ C7
\* the labels whose index puts '**' or '...' next to a concrete value
EllipsisToks == {<<"*", "*">>, <<".", ".", ".">>}

EllipsisMixed ==
    UNION {Forms(<<"x">>, l \o <<",">> \o r) : l \in TokL \ ({<<"*">>} \cup EllipsisToks), r \in EllipsisToks}
      \cup UNION {Forms(<<"x">>, l \o <<",">> \o r) : l \in EllipsisToks, r \in TokR \ ({<<"*">>} \cup EllipsisToks)}

\* C7 as stated: parsing a text in which the index of a segment combines an
\* ellipsis-style full wildcard with a concrete value raises and constructs
\* no identifier.
C7_RejectsEllipsisMixed ==
    origin.kind = "label" /\ origin.label \in EllipsisMixed => cuid.err # "none"

HasWild(seg) == seg.idx = StarStar \/ (seg.types # NoneT /\ InText("*", seg.types))

\* every position of the segment is typed '*', or it is (name, '**', None)
AllWild(seg) ==
    \/ seg.idx = StarStar
    \/ seg.types # NoneT /\ Len(seg.types) > 0 /\ \A j \in 1..Len(seg.types) : seg.types[j] = "*"

\* the segments outside segment i
Outer(cids, i) == SubSeq(cids, i + 1, Len(cids))

\* the component that segment i names, looked up from block; 0 if none
NamedAt(cids, i, block) == getattr(find_component(Outer(cids, i), block), cids[i].name)

\* some segment other than the innermost has a wildcard position and names an
\* indexed component
WildOverCollection(cids, block) ==
    \E i \in 2..Len(cids) :
        HasWild(cids[i]) /\ NamedAt(cids, i, block) # 0 /\ Kind(NamedAt(cids, i, block)) = "coll"

\* C10: when the innermost segment has only wildcard positions and the other
\* segments are concrete and present, find_component returns the component
\* the innermost segment names; when another segment has a wildcard position
\* over an indexed component, or the innermost segment is a partial slice,
\* it returns None.
C10_WildcardResolve ==
    out.op = "find" /\ Len(cuid.cids) > 0 =>
        /\ /\ AllWild(cuid.cids[1])
           /\ \A i \in 2..Len(cuid.cids) : ~HasWild(cuid.cids[i])
           /\ NamedAt(cuid.cids, 1, out.arg) # 0
           => out.obj = NamedAt(cuid.cids, 1, out.arg)
        /\ WildOverCollection(cuid.cids, out.arg) => out.obj = 0
        /\ HasWild(cuid.cids[1]) /\ ~AllWild(cuid.cids[1]) => out.obj = 0

C10_Witness ==
    /\ origin.kind = "label" /\ origin.label = <<"b", "[", "2", "]", ".", "p", "[", "*", "]">>
    /\ out.op = "find" /\ out.arg = 1 /\ out.obj = 16
\* ------------------------------------------------------------ C11
\* the text 'component'
ComponentText == <<"c", "o", "m", "p", "o", "n", "e", "n", "t">>

\* the log holds a set or del call at some position
HasSetOrDel(log) == \E i \in 1..Len(log) : IsSetOrDel(log[i].call)

\* the log holds a call of a method (the get_attr recorded just before the
\* call) whose name is not 'component'
HasOtherCall(log) ==
    \E i \in 2..Len(log) : log[i].call = "call" /\ log[i - 1].call = "get_attr" /\ log[i - 1].name # ComponentText

\* above its slice_info entry the log holds only get_attr, get_item and
\* calls of the method component
WellFormedLog(log) ==
    /\ Len(log) > 0
    /\ log[1].call = "slice_info"
    /\ \A i \in 2..Len(log) : log[i].call \in {"get_attr", "get_item", "call"}
    /\ \A i \in 2..Len(log) : log[i].call = "call" => log[i - 1].call = "get_attr" /\ log[i - 1].name = ComponentText

\* a well-formed log without an ellipsis: in its slice_info and in its indices
PlainLog(log) ==
    /\ WellFormedLog(log)
    /\ log[1].info.ellipsis = <<>>
    /\ \A i \in 2..Len(log) : \A j \in 1..Len(log[i].idx.vals) : log[i].idx.vals[j] # EllipsisV

\* C11: generating from a log that holds a set or del call at any position
\* fails with a ValueError; generating from a log that holds a call of a
\* method other than component fails; and a log of only get_attr, get_item
\* and component calls above its slice_info entry (no ellipsis in it) fails
\* with neither the ValueError of a set or del call nor the
\* NotImplementedError of another call.
C11_ForbiddenAndUnsupported ==
    origin.kind = "slice" =>
        /\ HasSetOrDel(origin.log) => cuid.err = "ValueError"
        /\ HasOtherCall(origin.log) => cuid.err # "none"
        /\ PlainLog(origin.log) /\ origin.context = 0 => cuid.err \notin {"ValueError", "NotImplementedError"}

\* ------------------------------------------------------------ C12
\* the positions of the get_attr entries, the most recent first
RECURSIVE AttrsFrom(_, _)
AttrsFrom(log, i) ==
    IF i < 2 THEN <<>>
    ELSE IF log[i].call = "get_attr" THEN <<i>> \o AttrsFrom(log, i - 1)
    ELSE AttrsFrom(log, i - 1)

\* the get_item entries processed before the get_attr at i and after the
\* get_attr processed before it
ItemsSince(log, i) ==
    {j \in (i + 1)..Len(log) : log[j].call = "get_item" /\ \A k \in (i + 1)..(j - 1) : log[k].call # "get_attr"}

\* the index pending at the get_attr at i: that of the item access processed
\* last, () when there was none
PendingIndex(log, i, items) ==
    IF items = {} THEN NoIndex ELSE log[CHOOSE j \in items : \A k \in items : j <= k].idx

\* the name of the segment of the get_attr at i: the argument of the
\* component call recorded after it, else the attribute
AttrName(log, i) == IF i < Len(log) /\ log[i + 1].call = "call" THEN log[i + 1].name ELSE log[i].name

PendingSeg(name, part) == Seg(name, part.idx, part.types)

\* the segment the get_attr at i is to produce
ExpectedSeg(log, i) ==
    IF i = Len(log) THEN Seg(AttrName(log, i), StarStar, NoneT)
    ELSE PendingSeg(AttrName(log, i), _partial_cuid_from_index(PendingIndex(log, i, ItemsSince(log, i))))

ExpectedAttrSegs(log, attrs) == [m \in 1..Len(attrs) |-> ExpectedSeg(log, attrs[m])]

\* the segment of the slice_info entry: its own index only
OriginSeg(entry, part) == Seg(local_name(entry.comp), part.idx, part.types)

SegsAre(cids, log, attrs) ==
    /\ Len(cids) > Len(attrs)
    /\ SubSeq(cids, 1, Len(attrs)) = ExpectedAttrSegs(log, attrs)
    /\ cids[Len(attrs) + 1] = OriginSeg(log[1], _partial_cuid_from_slice_info(log[1].info))

\* C12: generating from a log of get_attr, get_item and component calls
\* above its slice_info entry gives, most recent entry first, one segment for
\* every get_attr (the full wildcard '**' for a get_attr that is the most
\* recent entry, else the index of the get_item processed since the get_attr
\* before it, () when there was none), and then the segment of the
\* slice_info entry with its own index, no get_item index carried into it.
C12_AttrSegments ==
    origin.kind = "slice" /\ origin.context = 0 /\ PlainLog(origin.log) =>
        cuid.err = "none" /\ SegsAre(cuid.cids, origin.log, AttrsFrom(origin.log, Len(origin.log)))

====
